---- MODULE Spec2Model ----
(***************************************************************************)
(* Undo feature of the editor: the BaseCommand history stack, the delta    *)
(* set transformation transformDelta, and the selection restoration        *)
(* (transformRangesByDeltas, transformSelectionRange, _restoreSelection)   *)
(* of packages/ckeditor5-undo/src/basecommand.js.                          *)
(*                                                                         *)
(* The engine classes the file imports (Position, Range, the per-delta     *)
(* transform, Command.refreshState, the document selection) are not part   *)
(* of the sources at hand; they are modelled from the specification and    *)
(* marked so where they are defined.                                       *)
(*                                                                         *)
(* JavaScript arrays are sequences; a JavaScript index i is the sequence   *)
(* index i + 1, so the loop counters below keep their JavaScript values.   *)
(***************************************************************************)
EXTENDS Integers, Sequences, FiniteSets, TLC

VARIABLES
    \* BaseCommand and the document it is attached to
    stack,              \* this._stack: entries [batch, selection]
    isEnabled,          \* the command's observable isEnabled flag
    docSel,             \* editor.document.selection: [ranges, isBackward]
    nextBatch,          \* identity of the next Batch object handed to addBatch
    last,               \* the operation performed last, with its inputs and pre-state
    \* one call of transformDelta
    setToTransform, setToTransformBy, isStrong,
    results, to, t, outer, inner, pc, calls,
    \* one call of transformSelectionRange
    trIn, trOut, trPc,
    \* one call of transformRangesByDeltas
    rbIn,               \* the arguments: [ranges, deltas]
    rbRanges,           \* `ranges`, the array the call works on
    rbBy,               \* for each range of rbRanges, the operations that made it
    rbD, rbK, rbI,      \* the delta, the operation and the range the loops are at
    rbPc,
    \* InsertTableView
    rows, columns,      \* the observable rows and columns
    isOn,               \* isOn of the grid box at each index
    executed,           \* 'execute' events fired
    tvLast              \* the event handled last; for a click, with the state before it

cmdVars == <<stack, isEnabled, docSel, nextBatch, last>>
tdVars  == <<setToTransform, setToTransformBy, isStrong, results, to, t, outer, inner, pc, calls>>
trVars  == <<trIn, trOut, trPc>>
rbVars  == <<rbIn, rbRanges, rbBy, rbD, rbK, rbI, rbPc>>
tvVars  == <<rows, columns, isOn, executed, tvLast>>
vars    == <<stack, isEnabled, docSel, nextBatch, last,
             setToTransform, setToTransformBy, isStrong, results, to, t, outer, inner, pc, calls,
             trIn, trOut, trPc,
             rbIn, rbRanges, rbBy, rbD, rbK, rbI, rbPc,
             rows, columns, isOn, executed, tvLast>>

(***************************************************************************)
(* Bounds of the model.                                                    *)
(***************************************************************************)
\* nodes in the main root when a selection is recorded
DocLen == 3
\* nodes parked in the graveyard root at that time
GyLen == 1
\* largest howMany / nodes.maxOffset of one operation
MaxHowMany == 2
\* operations in the deltas a range is transformed by
MaxOps == 1
\* addBatch calls in one run (each with a fresh Batch)
MaxBatches == 3
\* deltas in setToTransform
MaxTo == 2
\* deltas in setToTransformBy
MaxBy == 3
\* most deltas one transform() call returns
MaxFan == 2

(***************************************************************************)
(* Sequences as JavaScript arrays.                                         *)
(***************************************************************************)
\* Array.prototype.splice( i, 1, ...ins ) for a JavaScript index i >= 0 within the array.
Splice(arr, i, ins) ==
    SubSeq(arr, 1, i) \o ins \o SubSeq(arr, i + 2, Len(arr))

Max(a, b) == IF a >= b THEN a ELSE b
Min(a, b) == IF a <= b THEN a ELSE b

(***************************************************************************)
(* Positions and ranges (engine.model.Position, engine.model.Range).       *)
(* A position is an offset in one of two roots; ranges are half-open.      *)
(***************************************************************************)
Roots == {"main", "graveyard"}
graveyard == "graveyard"

Pos(r, o) == [root |-> r, offset |-> o]
Rng(r, s, e) == [start |-> Pos(r, s), end |-> Pos(r, e)]

\* The document creates its graveyard root before any other root.
RootIndex(r) == IF r = graveyard THEN 0 ELSE 1

\* Position.isBefore: the total order of positions, root by root.
isBefore(a, b) ==
    \/ RootIndex(a.root) < RootIndex(b.root)
    \/ a.root = b.root /\ a.offset < b.offset

\* Position.isTouching: no node lies between the two positions.
isTouching(a, b) == a.root = b.root /\ a.offset = b.offset

getShiftedBy(p, n) == Pos(p.root, p.offset + n)

\* An insertion shifts the positions at or after the insertion point forward.
PositionByInsertion(p, insertPosition, howMany) ==
    IF p.root = insertPosition.root /\ p.offset >= insertPosition.offset
    THEN getShiftedBy(p, howMany)
    ELSE p

\* Removing howMany nodes at deletePosition shifts the positions after the
\* vacated span backward; a position inside the span falls onto its start.
PositionByDeletion(p, deletePosition, howMany) ==
    IF p.root # deletePosition.root \/ p.offset <= deletePosition.offset THEN p
    ELSE IF p.offset >= deletePosition.offset + howMany THEN getShiftedBy(p, -howMany)
    ELSE deletePosition

\* Range._getTransformedByInsertion( insertPosition, howMany, spread ): an
\* insert shifts the end points at or after the insertion point forward, so a
\* range that holds the insertion point grows by the inserted nodes and stays
\* one range.
_getTransformedByInsertion(range, insertPosition, howMany, spread) ==
    << [start |-> PositionByInsertion(range.start, insertPosition, howMany),
        end   |-> PositionByInsertion(range.end, insertPosition, howMany)] >>

\* The parts of the range outside the moved span, left part first.
getDifference(range, src, howMany) ==
    LET s == range.start.offset
        e == range.end.offset
        ms == src.offset
        me == src.offset + howMany
        meets == range.start.root = src.root /\ s < me /\ e > ms
    IN  IF ~meets THEN <<range>>
        ELSE (IF s < ms THEN <<Rng(src.root, s, ms)>> ELSE <<>>)
             \o (IF e > me THEN <<Rng(src.root, me, e)>> ELSE <<>>)

\* The part of the range inside the moved span, if any.
getIntersection(range, src, howMany) ==
    LET s == range.start.offset
        e == range.end.offset
        ms == src.offset
        me == src.offset + howMany
        meets == range.start.root = src.root /\ s < me /\ e > ms
    IN  IF meets THEN <<Rng(src.root, Max(s, ms), Min(e, me))>> ELSE <<>>

\* A part left behind makes room for the nodes that arrive at insertPosition:
\* with spread it is cut in two around them when they arrive strictly inside
\* it, otherwise it is shifted when it lies at or after them. Nodes that
\* arrive at its end are not taken into it.
MakeRoom(range, insertPosition, howMany, spread) ==
    LET s == range.start.offset
        e == range.end.offset
        p == insertPosition.offset
        same == range.start.root = insertPosition.root
    IN  IF same /\ s < p /\ p < e
        THEN IF spread
             THEN << [start |-> range.start, end |-> insertPosition],
                     [start |-> getShiftedBy(insertPosition, howMany),
                      end   |-> getShiftedBy(range.end, howMany)] >>
             ELSE << [start |-> range.start, end |-> getShiftedBy(range.end, howMany)] >>
        ELSE IF same /\ s >= p
        THEN << [start |-> getShiftedBy(range.start, howMany),
                 end   |-> getShiftedBy(range.end, howMany)] >>
        ELSE << range >>

\* Range._getTransformedByMove( sourcePosition, targetPosition, howMany, spread ):
\* the parts left behind close the gap and make room at the new location,
\* the part inside the moved span follows it to the new location.
_getTransformedByMove(range, sourcePosition, targetPosition, howMany, spread) ==
    LET insertPosition == PositionByDeletion(targetPosition, sourcePosition, howMany)
        Stay(r) ==
            MakeRoom([start |-> PositionByDeletion(r.start, sourcePosition, howMany),
                      end   |-> PositionByDeletion(r.end, sourcePosition, howMany)],
                     insertPosition, howMany, spread)
        Follow(r) ==
            [start |-> getShiftedBy(insertPosition, r.start.offset - sourcePosition.offset),
             end   |-> getShiftedBy(insertPosition, r.end.offset - sourcePosition.offset)]
        difference == getDifference(range, sourcePosition, howMany)
        common == getIntersection(range, sourcePosition, howMany)
    IN  (IF Len(difference) >= 1 THEN Stay(difference[1]) ELSE <<>>)
        \o (IF Len(difference) >= 2 THEN Stay(difference[2]) ELSE <<>>)
        \o [i \in 1..Len(common) |-> Follow(common[i])]

(***************************************************************************)
(* transformRangesByDeltas.                                                *)
(***************************************************************************)
\* `let result;`: the value of `result` when no case of the switch matches.
undefined == [defined |-> FALSE, value |-> <<>>]
Defined(v) == [defined |-> TRUE, value |-> v]

\* The switch with `let result = [];`: an operation of another type leaves
\* an empty array, which `if ( result )` takes for a result.
TransformRangeDefaultEmpty(range, operation) ==
    CASE operation.type = "insert" ->
            Defined(_getTransformedByInsertion(range, operation.position,
                                               operation.nodes.maxOffset, TRUE))
      [] operation.type \in {"move", "remove", "reinsert"} ->
            Defined(_getTransformedByMove(range, operation.sourcePosition,
                                          operation.targetPosition, operation.howMany, TRUE))
      [] OTHER -> Defined(<<>>)

\* The switch without its `case 'insert'`.
TransformRangeSkippingInsert(range, operation) ==
    CASE operation.type \in {"move", "remove", "reinsert"} ->
            Defined(_getTransformedByMove(range, operation.sourcePosition,
                                          operation.targetPosition, operation.howMany, TRUE))
      [] OTHER -> undefined

\* The switch of transformRangesByDeltas on operation.type.
TransformRangeByOperation(range, operation) ==
    CASE operation.type = "insert" ->
            Defined(_getTransformedByInsertion(range, operation.position,
                                               operation.nodes.maxOffset, TRUE))
      [] operation.type \in {"move", "remove", "reinsert"} ->
            Defined(_getTransformedByMove(range, operation.sourcePosition,
                                          operation.targetPosition, operation.howMany, TRUE))
      [] OTHER -> undefined

\* The loop's `i++` alone: the ranges just put in are visited too.
FixIteratorNoSkip(i, result) == i + 1

\* `i = i + result.length - 1` followed by the loop's `i++`.
FixIterator(i, result) == (i + Len(result) - 1) + 1

\* for ( let i = 0; i < ranges.length; i++ ) of transformRangesByDeltas,
\* from index i on.
RECURSIVE RangesLoop(_, _, _)
RangesLoop(ranges, operation, i) ==
    IF ~(i < Len(ranges)) THEN ranges
    ELSE LET result == TransformRangeByOperation(ranges[i + 1], operation)
         IN  IF result.defined
             THEN RangesLoop(Splice(ranges, i, result.value), operation,
                             FixIterator(i, result.value))
             ELSE RangesLoop(ranges, operation, i + 1)

\* for ( let operation of delta.operations ), from operation k on.
RECURSIVE OperationsLoop(_, _, _)
OperationsLoop(ranges, operations, k) ==
    IF k > Len(operations) THEN ranges
    ELSE OperationsLoop(RangesLoop(ranges, operations[k], 0), operations, k + 1)

\* for ( let delta of deltas ), from delta d on.
RECURSIVE DeltasLoop(_, _, _)
DeltasLoop(ranges, deltas, d) ==
    IF d > Len(deltas) THEN ranges
    ELSE DeltasLoop(OperationsLoop(ranges, deltas[d].operations, 1), deltas, d + 1)

transformRangesByDeltas(ranges, deltas) == DeltasLoop(ranges, deltas, 1)

(***************************************************************************)
(* transformSelectionRange.                                                *)
(***************************************************************************)
\* The comparator with its answers exchanged.
compareReversed(a, b) == IF isBefore(a.start, b.start) THEN 1 ELSE -1

\* The comparator handed to Array.prototype.sort.
compare(a, b) == IF isBefore(a.start, b.start) THEN -1 ELSE 1

InsertAt(arr, k, x) == SubSeq(arr, 1, k) \o <<x>> \o SubSeq(arr, k + 1, Len(arr))

\* transformed.sort( compare ): the arrays the sort may leave. The comparator
\* never answers 0, so for two ranges with the same start it asks for either
\* one first and the engine's sort decides; every other pair is ordered.
RECURSIVE SortOutcomes(_)
SortOutcomes(arr) ==
    IF Len(arr) <= 1 THEN {arr}
    ELSE LET x == arr[Len(arr)]
             Fits(r, k) == /\ \A i \in 1..k : ~(compare(x, r[i]) < 0)
                           /\ \A i \in (k + 1)..Len(r) : ~(compare(r[i], x) < 0)
         IN  UNION { { InsertAt(r, k, x) : k \in { k \in 0..Len(r) : Fits(r, k) } }
                     : r \in SortOutcomes(SubSeq(arr, 1, Len(arr) - 1)) }

\* The merge without its `i--`: the range after a merged one is passed over.
MergeNextSkipping(i) == i + 1

\* `i--` followed by the loop's `i++` after two ranges were merged.
MergeNext(i) == (i - 1) + 1

\* transformSelectionRange without its merge loop.
MergeLoopNone(transformed, i) == transformed

\* for ( let i = 1; i < transformed.length; i++ ): merges transformed[ i ]
\* into transformed[ i - 1 ] when they touch, from index i on.
RECURSIVE MergeLoop(_, _)
MergeLoop(transformed, i) ==
    IF ~(i < Len(transformed)) THEN transformed
    ELSE LET a == transformed[i]
             b == transformed[i + 1]
         IN  IF isTouching(a.end, b.start)
             THEN MergeLoop(Splice([transformed EXCEPT ![i].end = b.end], i, <<>>),
                            MergeNext(i))
             ELSE MergeLoop(transformed, i + 1)

\* transformSelectionRange( range, deltas ): the arrays it may return, one
\* for each outcome of the sort.
transformSelectionRange(range, deltas) ==
    { MergeLoop(sorted, 1) : sorted \in SortOutcomes(transformRangesByDeltas(<<range>>, deltas)) }

(***************************************************************************)
(* The inputs: ranges of the main root, and deltas whose operations are    *)
(* valid for the document they are applied to.                             *)
(***************************************************************************)
\* Operations applicable to a document with lm nodes in the main root and lg
\* nodes in the graveyard.
Operations(lm, lg) ==
    { [type |-> "insert", position |-> Pos("main", p), nodes |-> [maxOffset |-> n]]
        : p \in 0..lm, n \in 1..MaxHowMany }
    \cup
    { [type |-> "move", sourcePosition |-> Pos("main", s),
       targetPosition |-> Pos("main", g), howMany |-> n]
        : <<s, g, n>> \in { x \in (0..lm) \X (0..lm) \X (1..MaxHowMany) :
                              x[1] + x[3] <= lm /\ (x[2] <= x[1] \/ x[2] >= x[1] + x[3]) } }
    \cup
    { [type |-> "remove", sourcePosition |-> Pos("main", s),
       targetPosition |-> Pos(graveyard, g), howMany |-> n]
        : <<s, g, n>> \in { x \in (0..lm) \X (0..lg) \X (1..MaxHowMany) : x[1] + x[3] <= lm } }
    \cup
    { [type |-> "reinsert", sourcePosition |-> Pos(graveyard, s),
       targetPosition |-> Pos("main", g), howMany |-> n]
        : <<s, g, n>> \in { x \in (0..lg) \X (0..lm) \X (1..MaxHowMany) : x[1] + x[3] <= lg } }
    \cup
    { [type |-> "noop"] }

MainAfter(op, lm) ==
    CASE op.type = "insert" -> lm + op.nodes.maxOffset
      [] op.type = "remove" -> lm - op.howMany
      [] op.type = "reinsert" -> lm + op.howMany
      [] OTHER -> lm

GraveyardAfter(op, lg) ==
    CASE op.type = "remove" -> lg + op.howMany
      [] op.type = "reinsert" -> lg - op.howMany
      [] OTHER -> lg

\* Sequences of at most n operations, each applicable after the ones before it.
RECURSIVE OperationSeqs(_, _, _)
OperationSeqs(lm, lg, n) ==
    IF n = 0 THEN { <<>> }
    ELSE { <<>> } \cup
         UNION { { <<op>> \o rest
                     : rest \in OperationSeqs(MainAfter(op, lm), GraveyardAfter(op, lg), n - 1) }
                 : op \in Operations(lm, lg) }

\* The operations as one delta, and as one delta for each operation.
AsOneDelta(ops) == << [operations |-> ops] >>
AsDeltas(ops) == [k \in 1..Len(ops) |-> [operations |-> <<ops[k]>>]]

\* The lists of deltas of at most n operations in all.
DeltaLists(n) ==
    UNION { { AsOneDelta(ops), AsDeltas(ops) } : ops \in OperationSeqs(DocLen, GyLen, n) }

MainRanges == { Rng("main", s, e) : <<s, e>> \in { x \in (0..DocLen) \X (0..DocLen) : x[1] <= x[2] } }

(***************************************************************************)
(* One call of transformSelectionRange.                                    *)
(***************************************************************************)
TRIdle == trIn = [range |-> Rng("main", 0, 0), deltas |-> <<>>] /\ trOut = <<>> /\ trPc = "idle"

TRCall ==
    /\ trPc = "call"
    /\ trOut' \in transformSelectionRange(trIn.range, trIn.deltas)
    /\ trPc' = "return"
    /\ UNCHANGED <<trIn, cmdVars, tdVars, rbVars, tvVars>>

(***************************************************************************)
(* transformRangesByDeltas, statement by statement. rbBy[ n ] lists, for   *)
(* the range rbRanges[ n ], the operations <<delta, operation>> whose      *)
(* transformation led to it, in the order they were applied.               *)
(***************************************************************************)
\* operations in the deltas of one traced call
MaxTracedOps == 2

\* The arrays of ranges handed to transformRangesByDeltas: one range, or
\* two ranges that cover the text.
RangeArrays ==
    { <<r>> : r \in MainRanges } \cup { << Rng("main", 0, 1), Rng("main", 1, DocLen) >> }

RBIdle ==
    /\ rbIn = [ranges |-> <<>>, deltas |-> <<>>]
    /\ rbRanges = <<>> /\ rbBy = <<>>
    /\ rbD = 0 /\ rbK = 0 /\ rbI = 0 /\ rbPc = "idle"

\* The call: the loop over the deltas starts.
RBInit ==
    /\ rbIn \in [ranges : RangeArrays, deltas : DeltaLists(MaxTracedOps)]
    /\ rbRanges = rbIn.ranges
    /\ rbBy = [n \in 1..Len(rbIn.ranges) |-> <<>>]
    /\ rbD = 0 /\ rbK = 0 /\ rbI = 0 /\ rbPc = "deltas"

\* The operation the loops are at.
RBOperation == rbIn.deltas[rbD + 1].operations[rbK + 1]

\* for ( let delta of deltas ) {
RBNextDelta ==
    /\ rbPc = "deltas" /\ rbD < Len(rbIn.deltas)
    /\ rbK' = 0
    /\ rbPc' = "operations"
    /\ UNCHANGED <<rbIn, rbRanges, rbBy, rbD, rbI, cmdVars, tdVars, trVars, tvVars>>

\* `return ranges;`
RBReturn ==
    /\ rbPc = "deltas" /\ ~(rbD < Len(rbIn.deltas))
    /\ rbPc' = "return"
    /\ UNCHANGED <<rbIn, rbRanges, rbBy, rbD, rbK, rbI, cmdVars, tdVars, trVars, tvVars>>

\* for ( let operation of delta.operations ) { for ( let i = 0; ...
RBNextOperation ==
    /\ rbPc = "operations" /\ rbK < Len(rbIn.deltas[rbD + 1].operations)
    /\ rbI' = 0
    /\ rbPc' = "ranges"
    /\ UNCHANGED <<rbIn, rbRanges, rbBy, rbD, rbK, cmdVars, tdVars, trVars, tvVars>>

\* The operations of the delta are done: the next delta.
RBEndDelta ==
    /\ rbPc = "operations" /\ ~(rbK < Len(rbIn.deltas[rbD + 1].operations))
    /\ rbD' = rbD + 1
    /\ rbPc' = "deltas"
    /\ UNCHANGED <<rbIn, rbRanges, rbBy, rbK, rbI, cmdVars, tdVars, trVars, tvVars>>

\* One round of the loop over the ranges: the switch, and with a result the
\* splice and the fixed iterator.
RBTransformRange ==
    /\ rbPc = "ranges" /\ rbI < Len(rbRanges)
    /\ LET result == TransformRangeByOperation(rbRanges[rbI + 1], RBOperation)
           by == Append(rbBy[rbI + 1], <<rbD + 1, rbK + 1>>)
       IN  IF result.defined
           THEN /\ rbRanges' = Splice(rbRanges, rbI, result.value)
                /\ rbBy' = Splice(rbBy, rbI, [n \in 1..Len(result.value) |-> by])
                /\ rbI' = FixIterator(rbI, result.value)
           ELSE /\ rbI' = rbI + 1
                /\ UNCHANGED <<rbRanges, rbBy>>
    /\ UNCHANGED <<rbIn, rbD, rbK, rbPc, cmdVars, tdVars, trVars, tvVars>>

\* `i < ranges.length` fails: the next operation.
RBEndOperation ==
    /\ rbPc = "ranges" /\ ~(rbI < Len(rbRanges))
    /\ rbK' = rbK + 1
    /\ rbPc' = "operations"
    /\ UNCHANGED <<rbIn, rbRanges, rbBy, rbD, rbI, cmdVars, tdVars, trVars, tvVars>>

TracedTransformRangesByDeltas ==
    \/ RBNextDelta \/ RBReturn \/ RBNextOperation \/ RBEndDelta
    \/ RBTransformRange \/ RBEndOperation

(***************************************************************************)
(* InsertTableView: the grid of boxes, the 'over' event of a box and the   *)
(* click on the view.                                                      *)
(***************************************************************************)
\* boxes in a row of the grid: `index / 10`, `index % 10`
GridWidth == 10
\* boxes of the grid: `index < 100`
BoxCount == 100
\* clicks in one run
MaxClicks == 1

Boxes == 0..(BoxCount - 1)

\* `itemRow <= rows && itemColumn <= columns`: one row and one column too many.
_highlightGridBoxesInclusive(r, c) ==
    [index \in Boxes |-> (index \div GridWidth) <= r /\ (index % GridWidth) <= c]

\* _highlightGridBoxes(): isOn of every box for the rows and columns given.
_highlightGridBoxes(r, c) ==
    [index \in Boxes |-> (index \div GridWidth) < r /\ (index % GridWidth) < c]

\* Observable.set( name, value ): whether the change event is fired. It is
\* fired when the value differs; when it does not, either may happen.
FiresChange(old, new) == IF old # new THEN {TRUE} ELSE BOOLEAN

NoEvent == [type |-> "new", box |-> 0, rows |-> 0, columns |-> 0, isOn |-> [index \in Boxes |-> FALSE]]

\* constructor: rows and columns are 0, every box is created with isOn false.
TVInit ==
    /\ rows = 0 /\ columns = 0
    /\ isOn = [index \in Boxes |-> FALSE]
    /\ executed = 0
    /\ tvLast = NoEvent

\* boxView.on( 'over', ... ): rows is set, then columns; each change runs
\* _highlightGridBoxes with the values the view has at that moment.
Over(index) ==
    LET row == index \div GridWidth
        column == index % GridWidth
    IN  \E rowsChange \in FiresChange(rows, row + 1), columnsChange \in FiresChange(columns, column + 1) :
            LET afterRows == IF rowsChange THEN _highlightGridBoxes(row + 1, columns) ELSE isOn
            IN  /\ rows' = row + 1
                /\ columns' = column + 1
                /\ isOn' = IF columnsChange THEN _highlightGridBoxes(row + 1, column + 1)
                           ELSE afterRows
                /\ tvLast' = [NoEvent EXCEPT !.type = "over", !.box = index]
                /\ UNCHANGED executed

\* click: this.fire( 'execute' )
Click ==
    /\ executed < MaxClicks
    /\ executed' = executed + 1
    /\ tvLast' = [type |-> "click", box |-> 0, rows |-> rows, columns |-> columns, isOn |-> isOn]
    /\ UNCHANGED <<rows, columns, isOn>>

OverStep == (\E index \in Boxes : Over(index)) /\ UNCHANGED <<cmdVars, tdVars, trVars, rbVars>>
ClickStep == Click /\ UNCHANGED <<cmdVars, tdVars, trVars, rbVars>>

(***************************************************************************)
(* transformDelta, statement by statement.                                 *)
(*                                                                         *)
(* A delta of setToTransform is [src, frag, hist]: its place in the set,   *)
(* whether deltas of setToTransformBy collide with it, and the transform   *)
(* steps it went through. A delta of setToTransformBy is [id, fan]: its    *)
(* place in the set and the number of deltas a colliding delta becomes     *)
(* when transformed by it.                                                 *)
(***************************************************************************)
\* engine/model/delta/transform.js: transforms delta a by delta b into zero
\* or more deltas, each remembering the step.
transform(a, b, strong) ==
    LET n == IF a.frag THEN b.fan ELSE 1
    IN  [k \in 1..n |->
            [a EXCEPT !.hist = Append(@, [by |-> b.id, piece |-> k, isStrong |-> strong])]]

ToTransformSets ==
    UNION { { [i \in 1..n |-> [src |-> i, frag |-> f[i], hist |-> <<>>]] : f \in [1..n -> BOOLEAN] }
            : n \in 0..MaxTo }

TransformBySets ==
    UNION { { [j \in 1..n |-> [id |-> j, fan |-> f[j]]] : f \in [1..n -> 0..MaxFan] }
            : n \in 0..MaxBy }

\* `t = t + transformed.length`: the index moves past the deltas put in.
NextTAdvancing(i, transformed) == i + Len(transformed)

\* `t = t - 1 + transformed.length`
NextT(i, transformed) == i - 1 + Len(transformed)

\* `results = to`: the deltas of the earlier rounds are lost.
ConcatDropping(res, list) == list

\* `results = to.concat( results )`: the newest deltas come first.
ConcatReversed(res, list) == list \o res

\* `results = results.concat( to )`
Concat(res, list) == res \o list

TDIdle ==
    /\ setToTransform = <<>> /\ setToTransformBy = <<>> /\ isStrong = FALSE
    /\ results = <<>> /\ to = <<>> /\ t = 0 /\ outer = 0 /\ inner = 0
    /\ pc = "idle" /\ calls = <<>>

\* The call: `let results = [];` and the start of the outer loop.
TDInit ==
    /\ setToTransform \in ToTransformSets
    /\ setToTransformBy \in TransformBySets
    /\ isStrong \in BOOLEAN
    /\ results = <<>> /\ to = <<>> /\ t = 0 /\ outer = 0 /\ inner = 0
    /\ pc = "outer" /\ calls = <<>>

\* for ( let toTransform of setToTransform ) { let to = [ toTransform ]; t = 0
TDNextToTransform ==
    /\ pc = "outer" /\ outer < Len(setToTransform)
    /\ to' = << setToTransform[outer + 1] >>
    /\ t' = 0
    /\ pc' = "test"
    /\ UNCHANGED <<setToTransform, setToTransformBy, isStrong, results, outer, inner, calls, cmdVars, trVars, rbVars, tvVars>>

\* `return results;`
TDReturn ==
    /\ pc = "outer" /\ ~(outer < Len(setToTransform))
    /\ pc' = "done"
    /\ UNCHANGED <<setToTransform, setToTransformBy, isStrong, results, to, t, outer, inner, calls, cmdVars, trVars, rbVars, tvVars>>

\* `t < to.length` holds: the for-of loop over setToTransformBy starts.
TDEnterInner ==
    /\ pc = "test" /\ t < Len(to)
    /\ inner' = 0
    /\ pc' = "inner"
    /\ UNCHANGED <<setToTransform, setToTransformBy, isStrong, results, to, t, outer, calls, cmdVars, trVars, rbVars, tvVars>>

\* `t < to.length` fails: `results = results.concat( to );`, next toTransform.
TDConcat ==
    /\ pc = "test" /\ ~(t < Len(to))
    /\ results' = Concat(results, to)
    /\ outer' = outer + 1
    /\ pc' = "outer"
    /\ UNCHANGED <<setToTransform, setToTransformBy, isStrong, to, t, inner, calls, cmdVars, trVars, rbVars, tvVars>>

\* One round of the for-of loop: transform, splice, and the new value of t.
TDTransform ==
    /\ pc = "inner" /\ inner < Len(setToTransformBy)
    /\ t >= 0 /\ t < Len(to)
    /\ LET transformed == transform(to[t + 1], setToTransformBy[inner + 1], isStrong)
       IN  /\ to' = Splice(to, t, transformed)
           /\ t' = NextT(t, transformed)
    /\ calls' = Append(calls, [t |-> t, length |-> Len(to), by |-> inner + 1, isStrong |-> isStrong,
                               returned |-> Len(transform(to[t + 1], setToTransformBy[inner + 1], isStrong))])
    /\ inner' = inner + 1
    /\ UNCHANGED <<setToTransform, setToTransformBy, isStrong, results, outer, pc, cmdVars, trVars, rbVars, tvVars>>

\* One round of the for-of loop with to[ t ] undefined: transform is handed
\* no delta and throws.
TDTransformUndefined ==
    /\ pc = "inner" /\ inner < Len(setToTransformBy)
    /\ ~(t >= 0 /\ t < Len(to))
    /\ calls' = Append(calls, [t |-> t, length |-> Len(to), by |-> inner + 1, isStrong |-> isStrong,
                               returned |-> 0])
    /\ pc' = "threw"
    /\ UNCHANGED <<setToTransform, setToTransformBy, isStrong, results, to, t, outer, inner, cmdVars, trVars, rbVars, tvVars>>

\* The for-of loop is over: `t++` of the loop over `to`.
TDLeaveInner ==
    /\ pc = "inner" /\ ~(inner < Len(setToTransformBy))
    /\ t' = t + 1
    /\ pc' = "test"
    /\ UNCHANGED <<setToTransform, setToTransformBy, isStrong, results, to, outer, inner, calls, cmdVars, trVars, rbVars, tvVars>>

transformDelta ==
    \/ TDNextToTransform \/ TDReturn \/ TDEnterInner \/ TDConcat
    \/ TDTransform \/ TDTransformUndefined \/ TDLeaveInner

(***************************************************************************)
(* BaseCommand.                                                            *)
(***************************************************************************)
Selection(ranges, backward) == [ranges |-> ranges, isBackward |-> backward]

\* Selections the user makes in the document.
UserSelections ==
    { Selection(<<Rng("main", 0, 0)>>, FALSE),
      Selection(<<Rng("main", 1, DocLen)>>, TRUE),
      Selection(<<Rng("main", 0, 1), Rng("main", 2, DocLen)>>, FALSE) }

\* What `last` holds before any operation.
NoOperation ==
    [op |-> "new", batch |-> 0, ranges |-> <<>>, isBackward |-> FALSE, deltas |-> <<>>,
     transformed |-> <<>>, item |-> <<>>, prevStack |-> <<>>,
     prevSel |-> Selection(<<>>, FALSE)]

\* BaseCommand._checkEnabled
_checkEnabled(s) == Len(s) > 0

\* Command.refreshState: the flag becomes what _checkEnabled answers for the
\* stack as it is then.
refreshState(s) == isEnabled' = _checkEnabled(s)

\* Array.from( selection.getRanges() ): a new array of the ranges.
ArrayFrom(ranges) == ranges

\* constructor: `this._stack = []`, then refreshState.
CmdInit ==
    /\ stack = <<>>
    /\ isEnabled = _checkEnabled(<<>>)
    /\ docSel \in UserSelections
    /\ nextBatch = 1
    /\ last = NoOperation

CmdIdle ==
    /\ stack = <<>>
    /\ isEnabled = _checkEnabled(<<>>)
    /\ docSel = Selection(<<Rng("main", 0, 0)>>, FALSE)
    /\ nextBatch = 1
    /\ last = NoOperation

\* addBatch with `this._stack = [ { batch, selection } ]`: the entries stored
\* before are gone.
addBatchReplacing(batch) ==
    LET selection == [ranges |-> ArrayFrom(docSel.ranges), isBackward |-> docSel.isBackward]
    IN  /\ stack' = << [batch |-> batch, selection |-> selection] >>
        /\ refreshState(stack')
        /\ nextBatch' = nextBatch + 1
        /\ last' = [NoOperation EXCEPT !.op = "addBatch", !.batch = batch,
                                       !.prevStack = stack, !.prevSel = docSel]
        /\ UNCHANGED docSel

\* addBatch with `this._stack.unshift( ... )`: the entry goes to the bottom.
addBatchUnshift(batch) ==
    LET selection == [ranges |-> ArrayFrom(docSel.ranges), isBackward |-> docSel.isBackward]
    IN  /\ stack' = << [batch |-> batch, selection |-> selection] >> \o stack
        /\ refreshState(stack')
        /\ nextBatch' = nextBatch + 1
        /\ last' = [NoOperation EXCEPT !.op = "addBatch", !.batch = batch,
                                       !.prevStack = stack, !.prevSel = docSel]
        /\ UNCHANGED docSel

\* clearStack without its refreshState.
clearStackNoRefresh ==
    /\ stack' = <<>>
    /\ last' = [NoOperation EXCEPT !.op = "clearStack", !.prevStack = stack, !.prevSel = docSel]
    /\ UNCHANGED <<isEnabled, docSel, nextBatch>>

\* BaseCommand.addBatch
addBatch(batch) ==
    LET selection == [ranges |-> ArrayFrom(docSel.ranges), isBackward |-> docSel.isBackward]
    IN  /\ stack' = Append(stack, [batch |-> batch, selection |-> selection])
        /\ refreshState(stack')
        /\ nextBatch' = nextBatch + 1
        /\ last' = [NoOperation EXCEPT !.op = "addBatch", !.batch = batch,
                                       !.prevStack = stack, !.prevSel = docSel]
        /\ UNCHANGED docSel

\* BaseCommand.clearStack
clearStack ==
    /\ stack' = <<>>
    /\ refreshState(stack')
    /\ last' = [NoOperation EXCEPT !.op = "clearStack", !.prevStack = stack, !.prevSel = docSel]
    /\ UNCHANGED <<docSel, nextBatch>>

\* The pop of the undo and redo commands, run only while the command is
\* enabled: `this._stack.pop()`, then refreshState. Array.prototype.pop
\* answers undefined for an empty array.
Pop ==
    /\ isEnabled
    /\ stack' = IF Len(stack) = 0 THEN stack ELSE SubSeq(stack, 1, Len(stack) - 1)
    /\ refreshState(stack')
    /\ last' = [NoOperation EXCEPT !.op = "pop", !.prevStack = stack, !.prevSel = docSel,
                                   !.item = IF Len(stack) = 0 THEN <<>> ELSE <<stack[Len(stack)]>>]
    /\ UNCHANGED <<docSel, nextBatch>>

\* The user changes the document selection.
SetSelection(sel) ==
    /\ docSel # sel
    /\ docSel' = sel
    /\ last' = [NoOperation EXCEPT !.op = "setSelection", !.prevStack = stack, !.prevSel = docSel]
    /\ UNCHANGED <<stack, isEnabled, nextBatch>>

\* `transformedRanges[ 0 ]`: the first range, wherever it is.
FindFirst(transformedRanges, k) ==
    IF k > Len(transformedRanges) THEN <<>> ELSE << transformedRanges[k] >>

\* The last range that is not in the graveyard instead of the first.
RECURSIVE FindLast(_, _)
FindLast(transformedRanges, k) ==
    IF k > Len(transformedRanges) THEN <<>>
    ELSE IF FindLast(transformedRanges, k + 1) # <<>> THEN FindLast(transformedRanges, k + 1)
    ELSE IF transformedRanges[k].start.root # graveyard THEN << transformedRanges[k] >>
    ELSE <<>>

\* transformedRanges.find( range => range.start.root != document.graveyard ):
\* <<>> stands for undefined.
RECURSIVE Find(_, _)
Find(transformedRanges, k) ==
    IF k > Len(transformedRanges) THEN <<>>
    ELSE IF transformedRanges[k].start.root # graveyard THEN << transformedRanges[k] >>
    ELSE Find(transformedRanges, k + 1)

\* `if ( transformedRange ) selectionRanges.push( transformedRange )`
Push(selectionRanges, transformedRange) == selectionRanges \o transformedRange

\* for ( let range of ranges ) of _restoreSelection, from range k on;
\* transformed[ k ] is what transformSelectionRange returned for range k.
RECURSIVE RestoreLoop(_, _, _)
RestoreLoop(transformed, k, selectionRanges) ==
    IF k > Len(transformed) THEN selectionRanges
    ELSE RestoreLoop(transformed, k + 1, Push(selectionRanges, Find(transformed[k], 1)))

\* document.selection.setRanges( ranges, isBackward )
setRanges(ranges, backward) == Selection(ranges, backward)

\* setRanges without the test of `selectionRanges.length`.
InstallAlways(selectionRanges, backward, current) == Selection(selectionRanges, backward)

\* `if ( selectionRanges.length ) document.selection.setRanges( ... )`
Install(selectionRanges, backward, current) ==
    IF Len(selectionRanges) # 0 THEN setRanges(selectionRanges, backward) ELSE current

\* What transformSelectionRange may return for each of the ranges.
TransformedOutcomes(ranges, deltas) ==
    { tr \in [1..Len(ranges) -> UNION { transformSelectionRange(ranges[k], deltas) : k \in 1..Len(ranges) }]
        : \A k \in 1..Len(ranges) : tr[k] \in transformSelectionRange(ranges[k], deltas) }

\* BaseCommand._restoreSelection
_restoreSelection(ranges, backward, deltas) ==
    \E transformed \in TransformedOutcomes(ranges, deltas) :
        /\ docSel' = Install(RestoreLoop(transformed, 1, <<>>), backward, docSel)
        /\ last' = [NoOperation EXCEPT !.op = "restoreSelection", !.ranges = ranges,
                                       !.isBackward = backward, !.deltas = deltas,
                                       !.transformed = transformed,
                                       !.prevStack = stack, !.prevSel = docSel]
        /\ UNCHANGED <<stack, isEnabled, nextBatch>>

(***************************************************************************)
(* The command in use: batches are recorded, popped and cleared, the user  *)
(* moves the selection, and the selection of a popped entry is restored.   *)
(***************************************************************************)
\* Deltas the document history may hold since a batch was recorded.
HistoryDeltas ==
    { <<>>,
      AsOneDelta(<< [type |-> "insert", position |-> Pos("main", 1), nodes |-> [maxOffset |-> 1]] >>),
      AsOneDelta(<< [type |-> "remove", sourcePosition |-> Pos("main", 0),
                     targetPosition |-> Pos(graveyard, 0), howMany |-> DocLen] >>) }

AddBatchStep == nextBatch <= MaxBatches /\ addBatch(nextBatch) /\ UNCHANGED <<tdVars, trVars, rbVars, tvVars>>
ClearStackStep == clearStack /\ UNCHANGED <<tdVars, trVars, rbVars, tvVars>>
PopStep == Pop /\ UNCHANGED <<tdVars, trVars, rbVars, tvVars>>
SetSelectionStep == (\E sel \in UserSelections : SetSelection(sel)) /\ UNCHANGED <<tdVars, trVars, rbVars, tvVars>>

\* The selection of the entry popped last is restored.
RestoreStep ==
    /\ last.op = "pop" /\ last.item # <<>>
    /\ \E deltas \in HistoryDeltas :
          _restoreSelection(last.item[1].selection.ranges, last.item[1].selection.isBackward, deltas)
    /\ UNCHANGED <<tdVars, trVars, rbVars, tvVars>>

Init == CmdInit /\ TDIdle /\ TRIdle /\ RBIdle /\ TVInit
Next == AddBatchStep \/ ClearStackStep \/ PopStep \/ SetSelectionStep \/ RestoreStep
Spec == Init /\ [][Next]_vars

(***************************************************************************)
(* One call of _restoreSelection on any recorded selection.                *)
(***************************************************************************)
\* Recorded selections: one or two ranges of the main root that do not
\* intersect, in the order they were selected, or none.
RecordedRanges ==
    { <<>> } \cup { <<r>> : r \in MainRanges }
    \cup { <<a, b>> : <<a, b>> \in { x \in MainRanges \X MainRanges :
                                       \/ x[1].end.offset <= x[2].start.offset
                                       \/ x[2].end.offset <= x[1].start.offset } }

RestoreCall ==
    /\ last.op = "new"
    /\ \E ranges \in RecordedRanges, backward \in BOOLEAN, deltas \in DeltaLists(MaxOps) :
          _restoreSelection(ranges, backward, deltas)
    /\ UNCHANGED <<tdVars, trVars, rbVars, tvVars>>

SpecRestore == Init /\ [][RestoreCall]_vars

(***************************************************************************)
(* One call of transformDelta, and one of transformSelectionRange.         *)
(***************************************************************************)
InitTD == CmdIdle /\ TDInit /\ TRIdle /\ RBIdle /\ TVInit
SpecTD == InitTD /\ [][transformDelta]_vars

InitTR ==
    /\ CmdIdle /\ TDIdle /\ RBIdle /\ TVInit
    /\ trIn \in [range : MainRanges, deltas : DeltaLists(MaxOps)]
    /\ trOut = <<>> /\ trPc = "call"
SpecTR == InitTR /\ [][TRCall]_vars

InitRB == CmdIdle /\ TDIdle /\ TRIdle /\ RBInit /\ TVInit
SpecRB == InitRB /\ [][TracedTransformRangesByDeltas]_vars

InitTV == CmdIdle /\ TDIdle /\ TRIdle /\ RBIdle /\ TVInit
SpecTV == InitTV /\ [][OverStep \/ ClickStep]_vars

(***************************************************************************)
(* _restoreSelection on one recorded range of a text of ScenarioLen        *)
(* characters, after one delta: an insert of 3 characters at offset 4, a   *)
(* remove of the offsets [4,6), or a move of the offsets [3,6) to the end  *)
(* of the text.                                                            *)
(***************************************************************************)
ScenarioLen == 12

ScenarioRanges ==
    { Rng("main", s, e) : <<s, e>> \in { x \in (0..ScenarioLen) \X (0..ScenarioLen) : x[1] < x[2] } }

ScenarioInsert ==
    AsOneDelta(<< [type |-> "insert", position |-> Pos("main", 4), nodes |-> [maxOffset |-> 3]] >>)

ScenarioRemove ==
    AsOneDelta(<< [type |-> "remove", sourcePosition |-> Pos("main", 4),
                   targetPosition |-> Pos(graveyard, 0), howMany |-> 2] >>)

ScenarioMove ==
    AsOneDelta(<< [type |-> "move", sourcePosition |-> Pos("main", 3),
                   targetPosition |-> Pos("main", ScenarioLen), howMany |-> 3] >>)

ScenarioCall ==
    /\ last.op = "new"
    /\ \E range \in ScenarioRanges, backward \in BOOLEAN,
          deltas \in {ScenarioInsert, ScenarioRemove, ScenarioMove} :
          _restoreSelection(<<range>>, backward, deltas)
    /\ UNCHANGED <<tdVars, trVars, rbVars, tvVars>>

SpecScenario == Init /\ [][ScenarioCall]_vars

(***************************************************************************)
(* Properties of the stack of the command.                                 *)
(***************************************************************************)
\* C1: in every state the command is enabled exactly when its stack holds an
\* entry: it is disabled after construction and after clearStack, and enabled
\* after every addBatch.
C1_EnabledIffStackNonEmpty ==
    /\ isEnabled = (Len(stack) > 0)
    /\ last.op \in {"new", "clearStack"} => ~isEnabled
    /\ last.op = "addBatch" => isEnabled

C1_Witness ==
    last.op = "clearStack" /\ Len(last.prevStack) >= 2 /\ ~isEnabled

\* The entry addBatch stores for a batch while the selection is sel.
EntryOf(batch, sel) ==
    [batch |-> batch, selection |-> [ranges |-> sel.ranges, isBackward |-> sel.isBackward]]

\* C9: addBatch appends one entry, the batch with the selection as it is then,
\* keeps the entries stored before and leaves the document selection alone; a
\* later change of the selection, by the user or by a restore, leaves the
\* stored entries as they are.
C9_AddBatchAppendsSnapshot ==
    /\ last.op = "addBatch" =>
          /\ stack = Append(last.prevStack, EntryOf(last.batch, last.prevSel))
          /\ docSel = last.prevSel
    /\ last.op \in {"setSelection", "restoreSelection"} => stack = last.prevStack

C9_Witness ==
    /\ last.op = "setSelection"
    /\ Len(stack) >= 2
    /\ stack[Len(stack)].selection = last.prevSel
    /\ stack[Len(stack)].selection # docSel

\* C10: the stack keeps the entries in the order they were recorded; a pop
\* hands out the entry recorded last among those still stored and removes
\* only it; no other operation than pop and clearStack removes an entry.
C10_LastInFirstOut ==
    /\ \A i, j \in 1..Len(stack) : i < j => stack[i].batch < stack[j].batch
    /\ last.op = "pop" =>
          /\ last.item = << last.prevStack[Len(last.prevStack)] >>
          /\ stack = SubSeq(last.prevStack, 1, Len(last.prevStack) - 1)
          /\ \A i \in 1..Len(stack) : stack[i].batch < last.item[1].batch
    /\ last.op \notin {"pop", "clearStack"} =>
          /\ Len(stack) >= Len(last.prevStack)
          /\ SubSeq(stack, 1, Len(last.prevStack)) = last.prevStack

C10_Witness ==
    /\ last.op = "pop"
    /\ Len(stack) >= 1
    /\ last.item[1].batch = MaxBatches
    /\ stack[Len(stack)].batch = 1

(***************************************************************************)
(* Properties of transformDelta.                                           *)
(***************************************************************************)
\* The deltas of setToTransformBy a delta was transformed by, in the order of
\* the transform calls.
TransformedBy(delta) == [i \in 1..Len(delta.hist) |-> delta.hist[i].by]

AllOfTransformBy == [j \in 1..Len(setToTransformBy) |-> j]

\* C2: every delta transformDelta returns, the results of a split included,
\* was transformed by each delta of setToTransformBy, in the order of the set.
C2_EveryResultByEveryDelta ==
    pc = "done" => \A k \in 1..Len(results) : TransformedBy(results[k]) = AllOfTransformBy

\* C3: with an empty setToTransformBy, transformDelta returns the deltas of
\* setToTransform unchanged and in their order, and transform is never called.
C3_EmptyTransformBy ==
    setToTransformBy = <<>> =>
        /\ calls = <<>>
        /\ pc # "threw"
        /\ pc = "done" => results = setToTransform

C3_Witness ==
    pc = "done" /\ setToTransformBy = <<>> /\ Len(setToTransform) >= 2 /\ results = setToTransform

\* C4: the result is the lists produced for the deltas of setToTransform, one
\* after the other in the order of setToTransform; a delta that is never
\* split appears in it once.
C4_ConcatInOrder ==
    pc \in {"outer", "done"} =>
        /\ \A i, j \in 1..Len(results) : i < j => results[i].src <= results[j].src
        /\ \A k \in 1..Len(results) : results[k].src <= outer
        /\ \A s \in 1..outer :
              ~setToTransform[s].frag =>
                  Cardinality({ k \in 1..Len(results) : results[k].src = s }) = 1

C4_Witness ==
    /\ pc = "done"
    /\ Len(results) >= 4
    /\ results[1].src = 1 /\ results[2].src = 1
    /\ results[Len(results)].src = 2 /\ results[Len(results) - 1].src = 2

\* Every transform step of the call so far returned exactly one delta.
EveryStepReturnedOne == \A c \in 1..Len(calls) : calls[c].returned = 1

\* transform returns exactly one delta for every delta of setToTransform and
\* every delta of setToTransformBy: no step of the call can return another
\* number.
EveryStepReturnsOne ==
    \A i \in 1..Len(setToTransform) : \A j \in 1..Len(setToTransformBy) :
        Len(transform(setToTransform[i], setToTransformBy[j], isStrong)) = 1

\* C16: every transform call of one transformDelta call is handed the
\* isStrong of that call; and when every transform step returns exactly one
\* delta, the result is as long as setToTransform and its i-th element is
\* setToTransform[i] transformed by the deltas of setToTransformBy one after
\* the other, in the order of the set.
C16_IsStrongFixedAndOneToOne ==
    /\ \A c \in 1..Len(calls) : calls[c].isStrong = isStrong
    /\ \A k \in 1..Len(to) : \A h \in 1..Len(to[k].hist) : to[k].hist[h].isStrong = isStrong
    /\ \A k \in 1..Len(results) :
          \A h \in 1..Len(results[k].hist) : results[k].hist[h].isStrong = isStrong
    /\ EveryStepReturnsOne =>
          /\ EveryStepReturnedOne
          /\ pc # "threw"
          /\ pc = "done" =>
                /\ Len(results) = Len(setToTransform)
                /\ \A i \in 1..Len(results) :
                      /\ results[i].src = i
                      /\ results[i].frag = setToTransform[i].frag
                      /\ TransformedBy(results[i]) = AllOfTransformBy
                      /\ \A h \in 1..Len(results[i].hist) : results[i].hist[h].piece = 1

C16_Witness ==
    /\ pc = "done" /\ isStrong /\ EveryStepReturnedOne
    /\ Len(setToTransform) = MaxTo /\ Len(setToTransformBy) = MaxBy
    /\ \A i \in 1..MaxTo : setToTransform[i].frag
    /\ Len(calls) = MaxTo * MaxBy
    /\ Len(results) = MaxTo
    /\ \A i \in 1..MaxTo : TransformedBy(results[i]) = AllOfTransformBy

\* C17: every time transform is called, the index t is within the working
\* list (0 <= t < to.length), whatever number of deltas the steps return.
C17_IndexWithinBounds ==
    /\ \A c \in 1..Len(calls) : calls[c].t >= 0 /\ calls[c].t < calls[c].length
    /\ pc # "threw"

(***************************************************************************)
(* Properties of _restoreSelection.                                        *)
(***************************************************************************)
InGraveyard(range) == range.start.root = graveyard /\ range.end.root = graveyard

\* The recorded ranges that survive: transformSelectionRange returned for
\* them a range that does not start in the graveyard.
Survives(k) ==
    \E i \in 1..Len(last.transformed[k]) : last.transformed[k][i].start.root # graveyard

Survivors == { k \in 1..Len(last.transformed) : Survives(k) }

\* The first range that does not start in the graveyard.
FirstOutsideGraveyard(list) ==
    list[CHOOSE i \in 1..Len(list) :
            /\ list[i].start.root # graveyard
            /\ \A h \in 1..(i - 1) : list[h].start.root = graveyard]

\* C6: after _restoreSelection no range of the document selection lies in
\* the graveyard.
C6_NoGraveyardRangeInstalled ==
    last.op = "restoreSelection" =>
        \A k \in 1..Len(docSel.ranges) : ~InGraveyard(docSel.ranges[k])

C6_Witness ==
    /\ last.op = "restoreSelection"
    /\ docSel # last.prevSel
    /\ \E k \in 1..Len(last.transformed) :
          /\ Len(last.transformed[k]) >= 2
          /\ InGraveyard(last.transformed[k][1])

\* C7: each recorded range gives the restored selection at most one range,
\* the first range of its sorted and merged transformation that does not
\* start in the graveyard; the restored selection has no more ranges than
\* were recorded and keeps them in the order of the recorded ranges.
C7_OneRangePerRecordedRange ==
    (last.op = "restoreSelection" /\ Survivors # {}) =>
        /\ Len(docSel.ranges) = Cardinality(Survivors)
        /\ Len(docSel.ranges) <= Len(last.ranges)
        /\ \A k \in Survivors :
              docSel.ranges[Cardinality({ h \in Survivors : h <= k })]
                  = FirstOutsideGraveyard(last.transformed[k])

C7_Witness ==
    /\ last.op = "restoreSelection"
    /\ Len(last.ranges) = 2 /\ Len(docSel.ranges) = 2
    /\ \E k \in 1..2 :
          Cardinality({ i \in 1..Len(last.transformed[k]) :
                          last.transformed[k][i].start.root # graveyard }) >= 2

\* C8: _restoreSelection sets the document selection, with the recorded
\* direction, exactly when a recorded range survives; when none survives the
\* ranges and the direction of the document selection stay as they were.
C8_InstalledOnlyWhenSurviving ==
    last.op = "restoreSelection" =>
        IF Survivors # {}
        THEN docSel.isBackward = last.isBackward /\ Len(docSel.ranges) >= 1
        ELSE docSel = last.prevSel

C8_Witness ==
    /\ last.op = "restoreSelection"
    /\ Len(last.ranges) = 2 /\ Survivors = {}
    /\ last.isBackward # last.prevSel.isBackward
    /\ docSel = last.prevSel

KnownTypes == {"insert", "move", "remove", "reinsert"}

\* The places <<delta, operation>> of the operations of the deltas from
\* delta d on, in the order of the lists.
RECURSIVE Places(_)
Places(d) ==
    IF d > Len(rbIn.deltas) THEN <<>>
    ELSE [k \in 1..Len(rbIn.deltas[d].operations) |-> <<d, k>>] \o Places(d + 1)

OperationAt(place) == rbIn.deltas[place[1]].operations[place[2]]

\* The operations of a known type that come before the place <<d, k>>.
AppliedBefore(d, k) ==
    LET Test(place) == /\ OperationAt(place).type \in KnownTypes
                       /\ (place[1] < d \/ (place[1] = d /\ place[2] < k))
    IN  SelectSeq(Places(1), Test)

\* The operations of a known type up to the place <<d, k>>, that one included.
AppliedUpTo(d, k) == AppliedBefore(d, k + 1)

\* C15: the deltas are applied in the order of the list and the operations
\* of a delta in their order; an operation transforms every range that is
\* in the array when its turn comes exactly once, and the ranges it puts in
\* are not transformed by it again, only by the operations after it.
C15_EachRangeOncePerOperation ==
    /\ Len(rbBy) = Len(rbRanges)
    /\ rbPc \in {"deltas", "return"} =>
          \A n \in 1..Len(rbRanges) : rbBy[n] = AppliedBefore(rbD + 1, 1)
    /\ rbPc = "operations" =>
          \A n \in 1..Len(rbRanges) : rbBy[n] = AppliedBefore(rbD + 1, rbK + 1)
    /\ rbPc = "ranges" =>
          \A n \in 1..Len(rbRanges) :
              rbBy[n] = IF n <= rbI THEN AppliedUpTo(rbD + 1, rbK + 1)
                        ELSE AppliedBefore(rbD + 1, rbK + 1)

C15_Witness ==
    /\ rbPc = "return"
    /\ Len(rbIn.deltas) = 2
    /\ Len(rbRanges) >= 4
    /\ \A n \in 1..Len(rbRanges) : rbBy[n] = << <<1, 1>>, <<2, 1>> >>

\* No operation of a known type is among the deltas.
NoKnownOperation ==
    \A d \in 1..Len(rbIn.deltas) : \A k \in 1..Len(rbIn.deltas[d].operations) :
        rbIn.deltas[d].operations[k].type \notin KnownTypes

\* C18: with an empty list of deltas, and with operations of no other type
\* than unknown ones, transformRangesByDeltas returns the ranges it was
\* given, in their order; the array of ranges changes only in a step that
\* transforms a range by an insert, move, remove or reinsert operation.
C18_UnknownOperationsChangeNothing ==
    /\ [](NoKnownOperation =>
             /\ rbRanges = rbIn.ranges
             /\ transformRangesByDeltas(rbIn.ranges, rbIn.deltas) = rbIn.ranges)
    /\ [][rbRanges' # rbRanges =>
             (rbPc = "ranges" /\ RBOperation.type \in KnownTypes)]_vars

C18_Witness ==
    /\ rbPc = "return"
    /\ Len(rbIn.deltas) = 2
    /\ rbIn.deltas[1].operations[1].type = "noop"
    /\ rbIn.deltas[2].operations[1].type = "remove"
    /\ Len(rbIn.ranges) = 2
    /\ Len(rbRanges) > 2

(***************************************************************************)
(* The scenarios.                                                          *)
(***************************************************************************)
\* The recorded range r was restored through the deltas.
Restored(r, deltas) ==
    last.op = "restoreSelection" /\ last.ranges = <<r>> /\ last.deltas = deltas

C12_RemoveInsideRange ==
    Restored(Rng("main", 2, 8), ScenarioRemove) =>
        /\ docSel.ranges = << Rng("main", 2, 6) >>
        /\ \A i \in 1..Len(last.transformed[1]) :
              \/ last.transformed[1][i] = Rng("main", 2, 6)
              \/ InGraveyard(last.transformed[1][i])

C12_Witness ==
    /\ Restored(Rng("main", 2, 8), ScenarioRemove)
    /\ docSel.ranges = << Rng("main", 2, 6) >>
    /\ \E i \in 1..Len(last.transformed[1]) : InGraveyard(last.transformed[1][i])

C19_GridFollowsRowsAndColumns ==
    /\ \A i \in Boxes : isOn[i] <=> ((i \div GridWidth) < rows /\ (i % GridWidth) < columns)
    /\ tvLast.type = "new" => (rows = 0 /\ columns = 0 /\ executed = 0)
    /\ tvLast.type = "over" =>
          /\ rows = (tvLast.box \div GridWidth) + 1
          /\ columns = (tvLast.box % GridWidth) + 1
          /\ isOn[tvLast.box]
    /\ tvLast.type = "click" =>
          /\ executed >= 1
          /\ rows = tvLast.rows /\ columns = tvLast.columns /\ isOn = tvLast.isOn

C19_Witness ==
    /\ tvLast.type = "click" /\ executed = 1
    /\ rows = 3 /\ columns = 7
    /\ isOn[26] /\ ~isOn[27] /\ ~isOn[36] /\ isOn[0]
    /\ Cardinality({ i \in Boxes : isOn[i] }) = 21
====
